---- MODULE Spec2Model ----
(***************************************************************************)
(* Model of src/src/extension.ts: the 'vscode-commitizen.commit' command   *)
(* (the six-step wizard of ConventionalCommitMessage), the rendering of    *)
(* the commit message, and commit() with its conditional staging, output   *)
(* policy and failure handling.                                            *)
(*                                                                         *)
(* Representation of JavaScript values:                                    *)
(*   - a string is a sequence of symbols.  A literal of the source is one  *)
(*     symbol (<<"feat">>), except that blanks and line breaks are always  *)
(*     symbols of their own (": " is <<":", " ">>); text typed by the user *)
(*     is one symbol per character.  The empty string is <<>>.             *)
(*   - a value that may be undefined (T|undefined, an optional property)   *)
(*     is Undefined or Some(v).                                            *)
(***************************************************************************)
EXTENDS Integers, Sequences, FiniteSets, TLC

Undefined == <<>>
Some(v) == <<v>>
\* Boolean(x) for x : string|undefined
Truthy(o) == o # Undefined /\ o[1] # <<>>

(***************************************************************************)
(* Bounds                                                                  *)
(***************************************************************************)
\* a run differs from the base workspace and settings in at most this many
\* respects: a configuration field, a setting, the file layout, an edit of
\* the configuration file
MaxDeviations == 2

\* the invocations of the command handler a run follows, and the one followed
\* when the command is invoked again only after it has settled
Sessions == {1, 2}
FirstSession == {1}

(***************************************************************************)
(* Built-in tables                                                         *)
(***************************************************************************)
DEFAULT_TYPES ==
  << [value |-> <<"feat">>, name |-> <<"       : (U+2728) A new feature">>,
      emoji |-> <<"U+2728">>, emojiCode |-> <<":sparkles:">>],
     [value |-> <<"fix">>, name |-> <<"        : (U+1F41B) A bug fix">>,
      emoji |-> <<"U+1F41B">>, emojiCode |-> <<":bug:">>],
     [value |-> <<"docs">>, name |-> <<"      : (U+1F4D6) Documentation only changes">>,
      emoji |-> <<"U+1F4D6">>, emojiCode |-> <<":pencil:">>],
     [value |-> <<"style">>, name |-> <<"     : (U+1F484) Changes that do not affect the meaning of the code">>,
      emoji |-> <<"U+1F484">>, emojiCode |-> <<":lipstick:">>],
     [value |-> <<"refactor">>, name |-> <<" : (U+1F4E6) A code change that neither fixes a bug nor adds a feature">>,
      emoji |-> <<"U+1F4E6">>, emojiCode |-> <<":package:">>],
     [value |-> <<"perf">>, name |-> <<"      : (U+1F680) A code change that improves performance">>,
      emoji |-> <<"U+1F680">>, emojiCode |-> <<":rocket:">>],
     [value |-> <<"test">>, name |-> <<"      : (U+1F6A8) Adding missing tests or correcting existing tests">>,
      emoji |-> <<"U+1F6A8">>, emojiCode |-> <<":rotating_light:">>],
     [value |-> <<"build">>, name |-> <<"     : (U+1F477) Changes that affect the build system or external dependencies">>,
      emoji |-> <<"U+1F477">>, emojiCode |-> <<":construction_worker:">>],
     [value |-> <<"ci">>, name |-> <<"         : (U+1F4BB) Changes to our CI configuration files and scripts">>,
      emoji |-> <<"U+1F4BB">>, emojiCode |-> <<":computer:">>],
     [value |-> <<"chore">>, name |-> <<"    : (U+1F3AB) Other changes that don't modify src or test files">>,
      emoji |-> <<"U+1F3AB">>, emojiCode |-> <<":ticket:">>] >>

DEFAULT_MESSAGES ==
  [type |-> <<"Select the type of change that you're committing">>,
   customScope |-> <<"Denote the SCOPE of this change">>,
   customScopeEntry |-> <<"Custom scope...">>,
   scope |-> <<"Denote the SCOPE of this change (optional)">>,
   subject |-> <<"Write a SHORT, IMPERATIVE tense description of the change">>,
   body |-> <<"Provide a LONGER description of the change (optional). Use | to break new line">>,
   breaking |-> <<"List any BREAKING CHANGES (optional)">>,
   footer |-> <<"List any ISSUES CLOSED by this change (optional). E.g.: #31, #34">>]

(***************************************************************************)
(* The inputs: configuration files, settings, typed text                   *)
(***************************************************************************)
\* a types list as a project would configure it: a type that is also a
\* default type (with another emoji code), and one whose value is the empty
\* string
CustomTypes ==
  << [value |-> <<"feat">>, name |-> <<"A new feature">>,
      emoji |-> <<"U+1F389">>, emojiCode |-> <<":tada:">>],
     [value |-> <<>>, name |-> <<"No type">>,
      emoji |-> <<>>, emojiCode |-> <<>>] >>

TypesOptions == {Undefined, Some(<<>>), Some(CustomTypes)}

ScopesOptions ==
  {Undefined, Some(<<>>),
   Some(<<Some([name |-> <<"api">>]), Some([name |-> <<"ui">>])>>),
   Some(<<Undefined>>)}

MessagesOptions == {Undefined, Some([customScopeEntry |-> <<"Other...">>])}

FooterPrefixOptions == {Undefined, Some(<<>>), Some(<<"Fixes", " ">>)}

SkipQuestionsOptions ==
  {Undefined} \cup
  {Some(q) : q \in {{}, {"scope"}, {"body"}, {"breaking"}, {"footer"},
                    {"subject"}, {"body", "breaking"},
                    {"scope", "body", "breaking", "footer"}}}

\* interface CzConfig (allowBreakingChanges is never read by the code)
AllCzConfigs ==
  [types : TypesOptions, scopes : ScopesOptions, messages : MessagesOptions,
   allowCustomScopes : BOOLEAN, footerPrefix : FooterPrefixOptions,
   skipQuestions : SkipQuestionsOptions]

BaseCzConfig ==
  [types |-> Some(CustomTypes), scopes |-> Undefined, messages |-> Undefined,
   allowCustomScopes |-> TRUE, footerPrefix |-> Undefined,
   skipQuestions |-> Some({"body", "breaking"})]

\* the content a configuration file is replaced by when it is edited
EditedCzConfig ==
  [BaseCzConfig EXCEPT !.types = Some(<<DEFAULT_TYPES[2]>>),
                       !.scopes = Some(<<Some([name |-> <<"core">>])>>),
                       !.skipQuestions = Some({"body", "breaking", "footer"})]

\* interface Configuration, and the git extension's enableSmartCommit
AllSettings ==
  [autoSync : BOOLEAN, subjectLength : {1, 3},
   showOutputChannel : {"off", "always", "onError"},
   enableSmartCommit : BOOLEAN]

BaseSettings ==
  [autoSync |-> FALSE, subjectLength |-> 3, showOutputChannel |-> "off",
   enableSmartCommit |-> FALSE]

\* the workspace: whether a folder is open, and the files readCzConfig looks at
\*   czConfigJs : content of <folder>/.cz-config.js when it exists
\*   pkg        : "none" (no package.json), "plain" (no cz-customizable
\*                entry), "custom" (config.cz-customizable.config names a file)
\*   custom     : content of the file named by package.json when it exists
DirectWorkspaces ==
  {[folders |-> TRUE,
    fs |-> [czConfigJs |-> Some(c), pkg |-> "none", custom |-> Undefined]] :
     c \in AllCzConfigs}

OtherWorkspaces ==
  {[folders |-> FALSE,
    fs |-> [czConfigJs |-> Undefined, pkg |-> "none", custom |-> Undefined]]}
  \cup
  {[folders |-> TRUE, fs |-> [czConfigJs |-> Undefined, pkg |-> p, custom |-> x]] :
     p \in {"none", "plain", "custom"}, x \in {Undefined, Some(BaseCzConfig)}}

CountTrue(flags) == Cardinality({i \in DOMAIN flags : flags[i]})

Deviations(w, st) ==
  (IF w.fs.czConfigJs # Undefined /\ w.fs.czConfigJs[1] \in AllCzConfigs
     THEN LET c == w.fs.czConfigJs[1] IN
          CountTrue(<<c.types # BaseCzConfig.types,
                      c.scopes # BaseCzConfig.scopes,
                      c.messages # BaseCzConfig.messages,
                      c.allowCustomScopes # BaseCzConfig.allowCustomScopes,
                      c.footerPrefix # BaseCzConfig.footerPrefix,
                      c.skipQuestions # BaseCzConfig.skipQuestions>>)
     ELSE 1)
  + CountTrue(<<st.autoSync # BaseSettings.autoSync,
                st.subjectLength # BaseSettings.subjectLength,
                st.showOutputChannel # BaseSettings.showOutputChannel,
                st.enableSmartCommit # BaseSettings.enableSmartCommit>>)

\* what the user may type into an input box
Inputs == {<<>>, <<"x">>, <<"a", "|", " ">>}


(***************************************************************************)
(* String helpers                                                          *)
(***************************************************************************)
Min(S) == CHOOSE i \in S : \A j \in S : i <= j
Max(S) == CHOOSE i \in S : \A j \in S : j <= i

\* String(x) of a string|undefined, as a template literal renders it
ToText(o) == IF o = Undefined THEN <<"undefined">> ELSE o[1]

Whitespace == {" ", "\n"}

\* String.prototype.trim
trim(text) ==
  LET solid == {i \in 1..Len(text) : text[i] \notin Whitespace}
  IN  IF solid = {} THEN <<>> ELSE SubSeq(text, Min(solid), Max(solid))

\* String.prototype.split(sep) for a one-character separator
RECURSIVE split(_, _)
split(text, sep) ==
  LET at == {i \in 1..Len(text) : text[i] = sep}
  IN  IF at = {} THEN <<text>>
      ELSE <<SubSeq(text, 1, Min(at) - 1)>>
           \o split(SubSeq(text, Min(at) + 1, Len(text)), sep)

\* Array.prototype.join(sep)
RECURSIVE join(_, _)
join(parts, sep) ==
  IF Len(parts) = 0 THEN <<>>
  ELSE IF Len(parts) = 1 THEN parts[1]
  ELSE parts[1] \o <<sep>> \o join(Tail(parts), sep)

\* wrap(text, 72, {hard: true}) of the wrap-ansi package, for text whose lines
\* are at most 72 columns wide (every text of Inputs): each line keeps its
\* words and loses the blanks at its ends
wrap(text) ==
  LET lines == split(text, "\n")
      trimBlanks(line) ==
        LET solid == {i \in 1..Len(line) : line[i] # " "}
        IN  IF solid = {} THEN <<>> ELSE SubSeq(line, Min(solid), Max(solid))
  IN  join([i \in 1..Len(lines) |-> trimBlanks(lines[i])], "\n")

(***************************************************************************)
(* readCzConfig                                                            *)
(***************************************************************************)
\* hasCzConfig(pkg)
hasCzConfig(pkg) == pkg = "custom"

readCzConfig(folders, files) ==
  IF ~folders THEN Undefined
  ELSE IF files.czConfigJs # Undefined THEN files.czConfigJs
  ELSE IF files.pkg = "none" THEN Undefined
  ELSE LET found == IF hasCzConfig(files.pkg) THEN files.custom
                    ELSE files.czConfigJs
       IN  IF found = Undefined THEN Undefined ELSE found

(***************************************************************************)
(* ConventionalCommitMessage: the pure parts                               *)
(***************************************************************************)
shouldSkip(config, messageType) ==
  /\ config # Undefined
  /\ config[1].skipQuestions # Undefined
  /\ messageType \in config[1].skipQuestions[1]

hasScopes(config) ==
  /\ config # Undefined
  /\ config[1].scopes # Undefined
  /\ Len(config[1].scopes[1]) # 0

hasCustomMessage(config, messageType) ==
  /\ config # Undefined
  /\ config[1].messages # Undefined
  /\ messageType \in DOMAIN config[1].messages[1]

\* this.inputMessage(messageType), called on the object
inputMessage(config, messageType) ==
  IF hasCustomMessage(config, messageType)
    THEN config[1].messages[1][messageType]
    ELSE DEFAULT_MESSAGES[messageType]

\* getScopePicks(czConfig, inputMessage): customEntry is what the call
\* inputMessage('customScopeEntry') returns there
getScopePicks(config, customEntry) ==
  LET scopes == config[1].scopes[1]
      scopePicks == [i \in 1..Len(scopes) |->
                       [label |-> scopes[i][1].name, description |-> <<>>]]
  IN  IF config[1].allowCustomScopes
        THEN Append(scopePicks, [label |-> customEntry, description |-> <<>>])
        ELSE scopePicks

\* the type list of getType
TypeList(config) ==
  IF config # Undefined /\ config[1].types # Undefined
    THEN config[1].types[1] ELSE DEFAULT_TYPES

typePicks(config) ==
  LET types == TypeList(config)
  IN  [i \in 1..Len(types) |->
         [label |-> types[i].value, description |-> types[i].name]]

\* new ConventionalCommitMessage(czConfig)
ConventionalCommitMessage(config) ==
  [czConfig |-> config, next |-> TRUE, type |-> Undefined, scope |-> Undefined,
   subject |-> Undefined, body |-> Undefined, breaking |-> Undefined,
   footer |-> Undefined]

\* complete, were it to forget the cancellation
completeIgnoringNext(c) == Truthy(c.type) /\ Truthy(c.subject)

\* get complete()
complete(c) == c.next /\ Truthy(c.type) /\ Truthy(c.subject)

\* the validator, were it to check the upper limit only
validatorUpperLimitOnly(maxLength, input) ==
  IF Len(input) > maxLength
    THEN <<"Subject is required and must be less than", " ",
           ToString(maxLength), " ", "characters">>
    ELSE <<>>

\* the validator, were it to refuse the empty input only
validatorLowerLimitOnly(maxLength, input) ==
  IF Len(input) = 0
    THEN <<"Subject is required and must be less than", " ",
           ToString(maxLength), " ", "characters">>
    ELSE <<>>

\* the validator of getSubject: the error text, empty when the input is valid
validator(maxLength, input) ==
  IF Len(input) = 0 \/ Len(input) > maxLength
    THEN <<"Subject is required and must be less than", " ",
           ToString(maxLength), " ", "characters">>
    ELSE <<>>

\* messageFooter()
messageFooter(c) ==
  IF Truthy(c.footer)
    THEN (IF c.czConfig # Undefined /\ Truthy(c.czConfig[1].footerPrefix)
            THEN c.czConfig[1].footerPrefix[1] ELSE <<"Closes", " ">>)
         \o c.footer[1]
    ELSE <<>>

\* the scope of the header, were it put in parentheses whenever it is set
scopePartWheneverSet(c) ==
  IF c.scope # Undefined THEN <<"(">> \o c.scope[1] \o <<")">> ELSE <<>>

\* typeof this.scope === 'string' && this.scope ? `(${this.scope})` : ''
scopePart(c) ==
  IF Truthy(c.scope) THEN <<"(">> \o c.scope[1] \o <<")">> ELSE <<>>

\* get message(): czTypes!.filter(...) throws a TypeError when czTypes is
\* undefined
messageThrows(c) == c.czConfig = Undefined \/ c.czConfig[1].types = Undefined

message(c) ==
  LET czTypes == c.czConfig[1].types[1]
      emojiEntry == SelectSeq(czTypes, LAMBDA eachEmoji : Some(eachEmoji.value) = c.type)
      emoji == IF Len(emojiEntry) # 0 THEN emojiEntry[1].emojiCode ELSE <<>>
  IN  ToText(c.type)
      \o scopePart(c)
      \o <<":", " ">> \o emoji \o <<" ">> \o ToText(c.subject)
      \o <<"\n", "\n">> \o ToText(c.body) \o <<"\n", "\n">>
      \o (IF Truthy(c.breaking)
            THEN <<"BREAKING CHANGE:", " ">> \o c.breaking[1] \o <<"\n">>
            ELSE <<>>)
      \o messageFooter(c)


(***************************************************************************)
(* commit(): the pure parts                                                *)
(***************************************************************************)
\* hasOutput(result)
hasOutput(result) == result # Undefined /\ result[1].stdout # <<>>

\* shouldShowOutput(result)
shouldShowOutput(config, result) ==
  \/ config.showOutputChannel = "always"
  \/ config.showOutputChannel = "onError" /\ result[1].code > 0

\* commit(), were it to synchronise whatever the setting
autoSyncAlways(config) == TRUE

\* getConfiguration().autoSync of commit()
autoSync(config) == config.autoSync

\* conditionallyStageFiles, were it not to read git.enableSmartCommit
hasSmartCommitEnabledAlways(config) == TRUE

\* hasSmartCommitEnabled of conditionallyStageFiles
hasSmartCommitEnabled(config) == config.enableSmartCommit = TRUE

\* a call to a collaborator: the prompts, the git process, the host commands,
\* the notification and the output channel
Call(fn, step, arg) == [fn |-> fn, step |-> step, arg |-> arg]

\* the calls of lines 226-231, after the commit, the refresh and the sync
OutputCalls(config, result) ==
  IF hasOutput(result)
    THEN LET lines == split(result[1].stdout, "\n")
         IN  [i \in 1..Len(lines) |-> Call("channel.appendLine", "commit", lines[i])]
             \o (IF shouldShowOutput(config, result)
                   THEN <<Call("channel.show", "commit", <<>>)>> ELSE <<>>)
    ELSE <<>>

\* the catch block, were it to write the failure to the log only
CatchCallsLogOnly(e) ==
  << Call("channel.appendLine", "commit", e.message),
     Call("channel.appendLine", "commit", e.stack) >>

\* the calls of the catch block, lines 232-236
CatchCalls(e) ==
  << Call("showErrorMessage", "commit", e.message),
     Call("channel.appendLine", "commit", e.message),
     Call("channel.appendLine", "commit", e.stack) >>

\* what the git process and the host commands can answer
\*   execa resolves with {code: 0, stdout} and rejects when the exit status
\*   is not zero or the process cannot be started
DiffOutputs == {<<>>, <<"src/a.ts", "\n", "src/b.ts">>}
CommitOutputs == {<<>>, <<"[master 1a2b3c4] feat">>,
                  <<"[master 1a2b3c4] feat", "\n", " 1 file changed">>}

Failure(what, code) ==
  [message |-> <<"Command failed:", " ", what>>,
   stack |-> <<"Error:", " ", "Command failed:", " ", what, "\n", "    at ", what>>,
   code |-> code]

DiffFailures == {Failure("git diff --name-only --cached", 128)}
CommitFailures == {Failure("git commit -m", 1)}
CommandFailures(command) == {Failure(command, 0)}

(***************************************************************************)
(* State                                                                   *)
(***************************************************************************)
VARIABLES
  workspaceFolders, \* vscode.workspace.workspaceFolders is defined
  fs,               \* the configuration files of the workspace folder
  configuration,    \* the settings: 'commitizen', and git.enableSmartCommit
  activated,        \* activate() has run
  czConfig,         \* const czConfig of activate()
  mode,             \* who calls the step functions of a session
  pc,               \* where the command handler of a session stands
  ccm,              \* the ConventionalCommitMessage of a session
  prompt,           \* the quick pick or input box a session waits for
  frame,            \* commit(): message, result
  calls,            \* the calls to collaborators a session has made, in order
  cancelledAt,      \* the step whose prompt was cancelled, "none" if none was
  stepCalls         \* the step functions called directly (not by the handler)

vars == <<workspaceFolders, fs, configuration, activated, czConfig, mode, pc,
          ccm, prompt, frame, calls, cancelledAt, stepCalls>>

env == <<workspaceFolders, fs, configuration, activated, czConfig>>

\* a session calls the step functions directly at most this many times
MaxStepCalls == 3

NoPrompt ==
  [kind |-> "none", step |-> "none", question |-> <<>>, picks |-> <<>>,
   validate |-> Undefined, error |-> <<>>, customLabel |-> Undefined,
   customQuestion |-> Undefined]

\* vscode.window.showQuickPick(picks, {placeHolder: question}) inside askOneOf
QuickPick(step, question, picks, customLabel, customQuestion) ==
  [kind |-> "quickPick", step |-> step, question |-> question, picks |-> picks,
   validate |-> Undefined, error |-> <<>>, customLabel |-> customLabel,
   customQuestion |-> customQuestion]

\* vscode.window.showInputBox({placeHolder: question, validateInput}) inside ask;
\* error is the text validateInput returned for what is typed in the box
InputBox(step, question, validate) ==
  [kind |-> "inputBox", step |-> step, question |-> question, picks |-> <<>>,
   validate |-> validate, error |-> <<>>, customLabel |-> Undefined,
   customQuestion |-> Undefined]

\* commit(cwd, message): its argument, the output of the staged-files query,
\* the result of 'git commit', the failure caught
NoFrame ==
  [message |-> Undefined, diff |-> Undefined, result |-> Undefined,
   error |-> Undefined]

Init ==
  /\ \E w \in DirectWorkspaces \cup OtherWorkspaces, st \in AllSettings :
       /\ Deviations(w, st) <= MaxDeviations
       /\ workspaceFolders = w.folders
       /\ fs = w.fs
       /\ configuration = st
  /\ activated = FALSE
  /\ czConfig = Undefined
  /\ mode = [s \in Sessions |-> "handler"]
  /\ pc = [s \in Sessions |-> "idle"]
  /\ ccm = [s \in Sessions |-> ConventionalCommitMessage(Undefined)]
  /\ prompt = [s \in Sessions |-> NoPrompt]
  /\ frame = [s \in Sessions |-> NoFrame]
  /\ calls = [s \in Sessions |-> <<>>]
  /\ cancelledAt = [s \in Sessions |-> "none"]
  /\ stepCalls = [s \in Sessions |-> 0]


(***************************************************************************)
(* activate(), and the workspace changing under the running extension      *)
(***************************************************************************)
\* activate(): reads the configuration once and registers the command
Activate ==
  /\ ~activated
  /\ activated' = TRUE
  /\ czConfig' = readCzConfig(workspaceFolders, fs)
  /\ UNCHANGED <<workspaceFolders, fs, configuration, mode, pc, ccm, prompt,
                 frame, calls, cancelledAt, stepCalls>>

Running(s) == pc[s] \notin {"idle", "returned", "rejected"}

\* the user edits, creates or deletes .cz-config.js between two commits
EditConfigFile ==
  /\ activated
  /\ \A s \in Sessions : ~Running(s)
  /\ czConfig = readCzConfig(workspaceFolders, fs)
  /\ Deviations([folders |-> workspaceFolders, fs |-> fs], configuration)
       < MaxDeviations
  /\ \E content \in {Undefined, Some(EditedCzConfig)} \ {fs.czConfigJs} :
       fs' = [fs EXCEPT !.czConfigJs = content]
  /\ UNCHANGED <<workspaceFolders, configuration, activated, czConfig, mode,
                 pc, ccm, prompt, frame, calls, cancelledAt, stepCalls>>

(***************************************************************************)
(* The command handler and the step functions                              *)
(***************************************************************************)
\* the command handler, were it to call getSubject before getScope
AfterSubjectFirst(s, step) ==
  IF mode[s] = "handler"
    THEN CASE step = "type" -> "getSubject"
           [] step = "subject" -> "getScope"
           [] step = "scope" -> "getBody"
           [] step = "body" -> "getBreaking"
           [] step = "breaking" -> "getFooter"
           [] step = "footer" -> "complete"
    ELSE "caller"

\* where a step function returns to: the next line of the command handler,
\* or the caller that called it directly
After(s, step) ==
  IF mode[s] = "handler"
    THEN CASE step = "type" -> "getScope"
           [] step = "scope" -> "getSubject"
           [] step = "subject" -> "getBody"
           [] step = "body" -> "getBreaking"
           [] step = "breaking" -> "getFooter"
           [] step = "footer" -> "complete"
    ELSE "caller"

Resolved(fn, step) == Call("resolved", step, <<fn>>)
Rejected(fn, step) == Call("rejected", step, <<fn>>)

\* a step of the wizard, were the answers kept in one object for all the
\* invocations of the handler
WizardSharedAnswers(s, newPc, newCcm, newPrompt, newCalls, newCancelledAt) ==
  /\ pc' = [pc EXCEPT ![s] = newPc]
  /\ ccm' = [t \in Sessions |-> newCcm]
  /\ prompt' = [prompt EXCEPT ![s] = newPrompt]
  /\ calls' = [calls EXCEPT ![s] = calls[s] \o newCalls]
  /\ cancelledAt' = [cancelledAt EXCEPT ![s] = newCancelledAt]
  /\ UNCHANGED <<env, mode, frame, stepCalls>>

\* a step of the wizard of session s
Wizard(s, newPc, newCcm, newPrompt, newCalls, newCancelledAt) ==
  /\ pc' = [pc EXCEPT ![s] = newPc]
  /\ ccm' = [ccm EXCEPT ![s] = newCcm]
  /\ prompt' = [prompt EXCEPT ![s] = newPrompt]
  /\ calls' = [calls EXCEPT ![s] = calls[s] \o newCalls]
  /\ cancelledAt' = [cancelledAt EXCEPT ![s] = newCancelledAt]
  /\ UNCHANGED <<env, mode, frame, stepCalls>>

\* a step function that returns without asking
Return(s, step) ==
  Wizard(s, After(s, step), ccm[s], NoPrompt, <<>>, cancelledAt[s])

\* askOneOf up to its showQuickPick
OpenQuickPick(s, step, question, picks, customLabel, customQuestion) ==
  Wizard(s, step \o "_pick", ccm[s],
         QuickPick(step, question, picks, customLabel, customQuestion),
         <<Call("showQuickPick", step, question)>>, cancelledAt[s])

\* ask up to its showInputBox
OpenInputBox(s, step, question, validate) ==
  Wizard(s, step \o "_input", ccm[s], InputBox(step, question, validate),
         <<Call("showInputBox", step, question)>>, cancelledAt[s])

\* ask from the answer of its showInputBox on, and 'this.next = await ask(..)':
\* stored is what the save callback stores for the input
ask(c, input, field, stored) ==
  IF input = Undefined
    THEN [c EXCEPT !.next = FALSE]
    ELSE [c EXCEPT ![field] = stored, !.next = TRUE]

\* the answers a prompt can resolve to
PickAnswers(p) == {Undefined} \cup {Some(p.picks[i]) : i \in 1..Len(p.picks)}
InputAnswers(p) ==
  {Undefined} \cup
  {Some(input) : input \in
     {i \in Inputs : p.validate = Undefined \/ validator(p.validate[1], i) = <<>>}}

\* an input box of session s resolves to input
InputBoxResolved(s, step, input, field, stored) ==
  Wizard(s, After(s, step), ask(ccm[s], input, field, stored), NoPrompt,
         <<Resolved("showInputBox", prompt[s].step)>>,
         IF input = Undefined THEN prompt[s].step ELSE cancelledAt[s])

\* the command handler up to its first call
Invoke(s) ==
  /\ activated
  /\ ~Running(s)
  /\ mode' = [mode EXCEPT ![s] = "handler"]
  /\ pc' = [pc EXCEPT ![s] = "getType"]
  /\ ccm' = [ccm EXCEPT ![s] = ConventionalCommitMessage(czConfig)]
  /\ prompt' = [prompt EXCEPT ![s] = NoPrompt]
  /\ frame' = [frame EXCEPT ![s] = NoFrame]
  /\ calls' = [calls EXCEPT ![s] = <<>>]
  /\ cancelledAt' = [cancelledAt EXCEPT ![s] = "none"]
  /\ stepCalls' = [stepCalls EXCEPT ![s] = 0]
  /\ UNCHANGED env

\* the conditions under which the step functions ask
typeAsked(c) == c.next
subjectAsked(c) == c.next
\* getBody, were it to ask whatever skipQuestions says
bodyAskedIgnoringSkip(c) == c.next
bodyAsked(c) == c.next /\ ~shouldSkip(c.czConfig, "body")
breakingAsked(c) == c.next /\ ~shouldSkip(c.czConfig, "breaking")
\* getFooter, were it to ask after a cancellation
footerAskedAfterCancel(c) == ~shouldSkip(c.czConfig, "footer")
footerAsked(c) == c.next /\ ~shouldSkip(c.czConfig, "footer")

\* how getScope asks: with a quick pick, with an input box, or not at all
scopeAsked(c) ==
  IF ~c.next THEN "none"
  ELSE IF hasScopes(c.czConfig)
    THEN (IF c.czConfig[1].scopes[1][1] # Undefined THEN "pick" ELSE "none")
  ELSE IF ~shouldSkip(c.czConfig, "scope") THEN "input"
  ELSE "none"

GetType(s) ==
  /\ pc[s] = "getType"
  /\ IF typeAsked(ccm[s])
       THEN OpenQuickPick(s, "type", inputMessage(ccm[s].czConfig, "type"),
                          typePicks(ccm[s].czConfig), Undefined, Undefined)
       ELSE Return(s, "type")

\* askOneOf from the answer of its showQuickPick on: whether it asks the
\* custom question
asksCustom(p, pick) ==
  /\ pick # Undefined
  /\ p.customLabel # Undefined
  /\ pick[1].label = p.customLabel[1]
  /\ Truthy(p.customQuestion)

TypePicked(s) ==
  /\ pc[s] = "type_pick"
  /\ \E pick \in PickAnswers(prompt[s]) :
       Wizard(s, After(s, "type"),
              ask(ccm[s], pick, "type",
                  IF pick = Undefined THEN Undefined ELSE Some(pick[1].label)),
              NoPrompt, <<Resolved("showQuickPick", "type")>>,
              IF pick = Undefined THEN "type" ELSE cancelledAt[s])

\* getScope.  getScopePicks receives this.inputMessage without its object;
\* when allowCustomScopes is set it calls it, and 'this' is then undefined
\* (strict code: a TypeError, the step function and the handler reject) or
\* the global object (sloppy code: the default text, whatever is configured)
GetScope(s) ==
  /\ pc[s] = "getScope"
  /\ LET c == ccm[s]
         open(customEntry) ==
           OpenQuickPick(s, "scope", inputMessage(c.czConfig, "customScope"),
                         getScopePicks(c.czConfig, customEntry),
                         Some(inputMessage(c.czConfig, "customScopeEntry")),
                         Some(inputMessage(c.czConfig, "customScope")))
     IN  CASE scopeAsked(c) = "pick" ->
                IF c.czConfig[1].allowCustomScopes
                  THEN \E strict \in BOOLEAN :
                         IF strict
                           THEN Wizard(s, "rejected", c, NoPrompt, <<>>, cancelledAt[s])
                           ELSE open(DEFAULT_MESSAGES.customScopeEntry)
                  ELSE open(<<>>)
           [] scopeAsked(c) = "input" ->
                OpenInputBox(s, "scope", inputMessage(c.czConfig, "scope"), Undefined)
           [] OTHER -> Return(s, "scope")

\* the save callback of getScope's askOneOf: pick.label || undefined
scopeOfLabel(label) == IF label # <<>> THEN Some(label) ELSE Undefined

ScopePicked(s) ==
  /\ pc[s] = "scope_pick"
  /\ \E pick \in PickAnswers(prompt[s]) :
       IF asksCustom(prompt[s], pick)
         THEN Wizard(s, "scope_custom", ccm[s],
                     InputBox("scope", prompt[s].customQuestion[1], Undefined),
                     <<Resolved("showQuickPick", "scope"),
                       Call("showInputBox", "scope", prompt[s].customQuestion[1])>>,
                     cancelledAt[s])
         ELSE Wizard(s, After(s, "scope"),
                     ask(ccm[s], pick, "scope",
                         IF pick = Undefined THEN Undefined
                         ELSE scopeOfLabel(pick[1].label)),
                     NoPrompt, <<Resolved("showQuickPick", "scope")>>,
                     IF pick = Undefined THEN "scope" ELSE cancelledAt[s])

CustomScopeEntered(s) ==
  /\ pc[s] = "scope_custom"
  /\ \E input \in InputAnswers(prompt[s]) :
       Wizard(s, After(s, "scope"),
              ask(ccm[s], input, "scope",
                  IF input = Undefined THEN Undefined ELSE scopeOfLabel(input[1])),
              NoPrompt, <<Resolved("showInputBox", "scope")>>,
              IF input = Undefined THEN "customScope" ELSE cancelledAt[s])

ScopeEntered(s) ==
  /\ pc[s] = "scope_input"
  /\ \E input \in InputAnswers(prompt[s]) :
       InputBoxResolved(s, "scope", input, "scope", input)

GetSubject(s) ==
  /\ pc[s] = "getSubject"
  /\ IF subjectAsked(ccm[s])
       THEN OpenInputBox(s, "subject", inputMessage(ccm[s].czConfig, "subject"),
                         Some(configuration.subjectLength))
       ELSE Return(s, "subject")

SubjectEntered(s) ==
  /\ pc[s] = "subject_input"
  /\ \E input \in InputAnswers(prompt[s]) :
       InputBoxResolved(s, "subject", input, "subject", input)

\* the user types, and validateInput returns an error text: the input box
\* shows it, stays open and does not resolve
SubjectRejected(s) ==
  /\ pc[s] = "subject_input"
  /\ \E input \in Inputs :
       /\ validator(prompt[s].validate[1], input) # <<>>
       /\ prompt' = [prompt EXCEPT ![s].error = validator(prompt[s].validate[1], input)]
  /\ prompt'[s] # prompt[s]
  /\ UNCHANGED <<env, mode, pc, ccm, frame, calls, cancelledAt, stepCalls>>

GetBody(s) ==
  /\ pc[s] = "getBody"
  /\ IF bodyAsked(ccm[s])
       THEN OpenInputBox(s, "body", inputMessage(ccm[s].czConfig, "body"), Undefined)
       ELSE Return(s, "body")

BodyEntered(s) ==
  /\ pc[s] = "body_input"
  /\ \E input \in InputAnswers(prompt[s]) :
       InputBoxResolved(s, "body", input, "body",
                        IF input = Undefined THEN Undefined
                        ELSE Some(wrap(join(split(input[1], "|"), "\n"))))

GetBreaking(s) ==
  /\ pc[s] = "getBreaking"
  /\ IF breakingAsked(ccm[s])
       THEN OpenInputBox(s, "breaking", inputMessage(ccm[s].czConfig, "breaking"),
                         Undefined)
       ELSE Return(s, "breaking")

BreakingEntered(s) ==
  /\ pc[s] = "breaking_input"
  /\ \E input \in InputAnswers(prompt[s]) :
       InputBoxResolved(s, "breaking", input, "breaking", input)

GetFooter(s) ==
  /\ pc[s] = "getFooter"
  /\ IF footerAsked(ccm[s])
       THEN OpenInputBox(s, "footer", inputMessage(ccm[s].czConfig, "footer"),
                         Undefined)
       ELSE Return(s, "footer")

FooterEntered(s) ==
  /\ pc[s] = "footer_input"
  /\ \E input \in InputAnswers(prompt[s]) :
       InputBoxResolved(s, "footer", input, "footer", input)


(***************************************************************************)
(* commit()                                                                *)
(***************************************************************************)
\* a step of commit() in session s
Commit(s, newPc, newFrame, newCalls) ==
  /\ pc' = [pc EXCEPT ![s] = newPc]
  /\ frame' = [frame EXCEPT ![s] = newFrame]
  /\ calls' = [calls EXCEPT ![s] = calls[s] \o newCalls]
  /\ UNCHANGED <<env, mode, ccm, prompt, cancelledAt, stepCalls>>

GitCommit(s) == Call("gitCommit", "commit", frame[s].message[1])

\* the catch block, were it to refresh the host's view all the same
CaughtAndRefreshed(s, fn, e) ==
  Commit(s, "returned", [frame[s] EXCEPT !.error = Some(e)],
         <<Rejected(fn, "commit")>> \o CatchCalls(e)
           \o <<Call("git.refresh", "commit", <<>>)>>)

\* the catch block: commit() returns
Caught(s, fn, e) ==
  Commit(s, "returned", [frame[s] EXCEPT !.error = Some(e)],
         <<Rejected(fn, "commit")>> \o CatchCalls(e))

\* lines 226-231: commit() returns
Finish(s, fn) ==
  Commit(s, "returned", frame[s],
         <<Resolved(fn, "commit")>> \o OutputCalls(configuration, frame[s].result))

\* line 35, and commit() up to its first await
CheckComplete(s) ==
  /\ pc[s] = "complete"
  /\ IF complete(ccm[s]) /\ workspaceFolders
       THEN IF messageThrows(ccm[s])
              THEN Commit(s, "rejected", frame[s], <<>>)
              ELSE LET text == trim(message(ccm[s]))
                       about == Call("channel.appendLine", "commit",
                                     <<"About to commit '">> \o text \o <<"'">>)
                   IN  IF hasSmartCommitEnabled(configuration)
                         THEN Commit(s, "await_diff",
                                     [frame[s] EXCEPT !.message = Some(text)],
                                     <<about, Call("gitDiff", "commit", <<>>)>>)
                         ELSE Commit(s, "await_commit",
                                     [frame[s] EXCEPT !.message = Some(text)],
                                     <<about, Call("gitCommit", "commit", text)>>)
       ELSE Commit(s, "returned", frame[s], <<>>)

\* hasStagedFiles: 'git diff --name-only --cached' ends
DiffDone(s) ==
  /\ pc[s] = "await_diff"
  /\ \/ \E stdout \in DiffOutputs :
          IF ~hasOutput(Some([code |-> 0, stdout |-> stdout]))
            THEN Commit(s, "await_stageAll", [frame[s] EXCEPT !.diff = Some(stdout)],
                        <<Resolved("gitDiff", "commit"),
                          Call("channel.appendLine", "commit",
                               <<"Staging all files (enableSmartCommit enabled with nothing staged)">>),
                          Call("git.stageAll", "commit", <<>>)>>)
            ELSE Commit(s, "await_commit", [frame[s] EXCEPT !.diff = Some(stdout)],
                        <<Resolved("gitDiff", "commit"), GitCommit(s)>>)
     \/ \E e \in DiffFailures : Caught(s, "gitDiff", e)

StageAllDone(s) ==
  /\ pc[s] = "await_stageAll"
  /\ \/ Commit(s, "await_commit", frame[s],
               <<Resolved("git.stageAll", "commit"), GitCommit(s)>>)
     \/ \E e \in CommandFailures("git.stageAll") : Caught(s, "git.stageAll", e)

\* 'git commit -m message' ends
GitCommitDone(s) ==
  /\ pc[s] = "await_commit"
  /\ \/ \E stdout \in CommitOutputs :
          Commit(s, "await_refresh",
                 [frame[s] EXCEPT !.result = Some([code |-> 0, stdout |-> stdout])],
                 <<Resolved("gitCommit", "commit"),
                   Call("git.refresh", "commit", <<>>)>>)
     \/ \E e \in CommitFailures : Caught(s, "gitCommit", e)

RefreshDone(s) ==
  /\ pc[s] = "await_refresh"
  /\ \/ IF autoSync(configuration)
          THEN Commit(s, "await_sync", frame[s],
                      <<Resolved("git.refresh", "commit"),
                        Call("git.sync", "commit", <<>>)>>)
          ELSE Finish(s, "git.refresh")
     \/ \E e \in CommandFailures("git.refresh") : Caught(s, "git.refresh", e)

SyncDone(s) ==
  /\ pc[s] = "await_sync"
  /\ \/ Finish(s, "git.sync")
     \/ \E e \in CommandFailures("git.sync") : Caught(s, "git.sync", e)

(***************************************************************************)
(* The step functions called directly, in any order                        *)
(***************************************************************************)
Construct(s) ==
  /\ activated
  /\ pc[s] = "idle"
  /\ mode' = [mode EXCEPT ![s] = "direct"]
  /\ pc' = [pc EXCEPT ![s] = "caller"]
  /\ ccm' = [ccm EXCEPT ![s] = ConventionalCommitMessage(czConfig)]
  /\ UNCHANGED <<env, prompt, frame, calls, cancelledAt, stepCalls>>

StepFunctions ==
  {"getType", "getScope", "getSubject", "getBody", "getBreaking", "getFooter"}

CallStep(s) ==
  /\ pc[s] = "caller"
  /\ stepCalls[s] < MaxStepCalls
  /\ \E f \in StepFunctions : pc' = [pc EXCEPT ![s] = f]
  /\ stepCalls' = [stepCalls EXCEPT ![s] = stepCalls[s] + 1]
  /\ UNCHANGED <<env, mode, ccm, prompt, frame, calls, cancelledAt>>

(***************************************************************************)
(* Specifications                                                          *)
(***************************************************************************)
Steps(s) ==
  \/ GetType(s) \/ TypePicked(s)
  \/ GetScope(s) \/ ScopePicked(s) \/ CustomScopeEntered(s) \/ ScopeEntered(s)
  \/ GetSubject(s) \/ SubjectRejected(s) \/ SubjectEntered(s)
  \/ GetBody(s) \/ BodyEntered(s)
  \/ GetBreaking(s) \/ BreakingEntered(s)
  \/ GetFooter(s) \/ FooterEntered(s)

Next ==
  \/ Activate
  \/ EditConfigFile
  \/ \E s \in FirstSession :
       \/ Invoke(s)
       \/ Steps(s)
       \/ CheckComplete(s)
       \/ DiffDone(s) \/ StageAllDone(s) \/ GitCommitDone(s)
       \/ RefreshDone(s) \/ SyncDone(s)

\* the command: invocations of the handler, one after the other
Spec == Init /\ [][Next]_vars

NextSteps ==
  \/ Activate
  \/ \E s \in FirstSession : Construct(s) \/ CallStep(s) \/ Steps(s)

\* one ConventionalCommitMessage whose step functions are called in any order,
\* under the base settings
InitSteps ==
  /\ Init
  /\ configuration = BaseSettings
  /\ Deviations([folders |-> workspaceFolders, fs |-> fs], configuration)
       < MaxDeviations

SpecSteps == InitSteps /\ [][NextSteps]_vars

\* the configuration files under which overlapping invocations are followed:
\* free-text scope, a scopes list, and a wizard that asks for the body and
\* the breaking changes
OverlapCzConfigs ==
  {BaseCzConfig,
   [BaseCzConfig EXCEPT !.scopes = Some(<<Some([name |-> <<"api">>]),
                                          Some([name |-> <<"ui">>])>>)],
   [BaseCzConfig EXCEPT !.skipQuestions = Some({"scope"})]}

InitOverlap ==
  /\ Init
  /\ configuration = BaseSettings
  /\ workspaceFolders
  /\ fs.czConfigJs # Undefined
  /\ fs.czConfigJs[1] \in OverlapCzConfigs

NextOverlap ==
  \/ Activate
  \/ \E s \in Sessions : Invoke(s) \/ Steps(s) \/ CheckComplete(s)

\* the command invoked again while an earlier invocation has not settled; the
\* invocations are followed up to the start of 'git commit'
SpecOverlap == InitOverlap /\ [][NextOverlap]_vars


(***************************************************************************)
(* Properties                                                              *)
(***************************************************************************)
\* the calls of session s to the collaborator function fn
CallsTo(s, fn) == {i \in DOMAIN calls[s] : calls[s][i].fn = fn}

\* session s has asked the user something at the given step
Prompted(s, step) ==
  \E i \in DOMAIN calls[s] :
    /\ calls[s][i].fn \in {"showQuickPick", "showInputBox"}
    /\ calls[s][i].step = step

\* the configuration of session s lists the step in skipQuestions
SkipListed(s, step) ==
  /\ ccm[s].czConfig # Undefined
  /\ ccm[s].czConfig[1].skipQuestions # Undefined
  /\ step \in ccm[s].czConfig[1].skipQuestions[1]

\* the configuration of session s has a non-empty scopes list
ScopesListed(s) ==
  /\ ccm[s].czConfig # Undefined
  /\ ccm[s].czConfig[1].scopes # Undefined
  /\ ccm[s].czConfig[1].scopes[1] # <<>>

\* C1: when a prompt of a session of the command (Type, Scope, the custom
\* scope entry, Subject, Body, Breaking, Footer) is cancelled, commit() is
\* never called in that session (no call of commit() at all: no staged-files
\* query, no stage-all, no 'git commit', no error notification, no log
\* line), the handler does not fail, and complete is false when the handler
\* evaluates it.
C1_CancelNeverCommits ==
  \A s \in Sessions :
    cancelledAt[s] # "none" =>
      /\ \A i \in DOMAIN calls[s] : calls[s][i].step # "commit"
      /\ frame[s] = NoFrame
      /\ pc[s] \notin {"await_diff", "await_stageAll", "await_commit",
                       "await_refresh", "await_sync", "rejected"}
      /\ pc[s] = "complete" => ~complete(ccm[s])

\* C1 witness: the handler has returned after the custom scope entry was
\* cancelled
C1_Witness ==
  \E s \in Sessions : pc[s] = "returned" /\ cancelledAt[s] = "customScope"

\* C2: once a prompt of a ConventionalCommitMessage has been cancelled, no
\* step, whichever step function is called next, opens a prompt, calls the
\* prompt collaborator, changes one of the six answers or sets next again.
C2_CancelledAbsorbing ==
  [][\A s \in Sessions :
       cancelledAt[s] # "none" =>
         /\ ~ccm[s].next /\ ~ccm'[s].next
         /\ \A f \in {"type", "scope", "subject", "body", "breaking", "footer"} :
              ccm'[s][f] = ccm[s][f]
         /\ prompt[s] = NoPrompt /\ prompt'[s] = NoPrompt
         /\ calls'[s] = calls[s]]_vars

\* C2 witness: with no configuration (every step asks), getType was called
\* first and cancelled, and two more step functions have been called and
\* have returned since
C2_Witness ==
  \E s \in Sessions :
    /\ ccm[s].czConfig = Undefined
    /\ cancelledAt[s] = "type"
    /\ pc[s] = "caller"
    /\ stepCalls[s] = 3
    /\ Len(calls[s]) = 2

\* C3 as stated: complete = not cancelled and type set and subject set,
\* whatever the values stored.
C3_CompleteIffSet ==
  \A s \in Sessions :
    complete(ccm[s]) =
      (cancelledAt[s] = "none" /\ ccm[s].type # Undefined
                               /\ ccm[s].subject # Undefined)

\* C3 as amended: complete = no prompt was cancelled, and the type stored is
\* a non-empty string, and a subject is stored (the subject stored is never
\* empty).
C3_CompleteIffNonEmptyType ==
  \A s \in Sessions :
    complete(ccm[s]) =
      (cancelledAt[s] = "none" /\ Truthy(ccm[s].type)
                               /\ ccm[s].subject # Undefined)

\* C3 witness: the handler evaluates complete with the empty type picked and
\* a subject stored
C3_Witness ==
  \E s \in Sessions :
    /\ pc[s] = "complete"
    /\ cancelledAt[s] = "none"
    /\ ccm[s].type = Some(<<>>)
    /\ ccm[s].subject # Undefined

\* the step was passed over: nothing asked, nothing stored, not cancelled
PassedOver(s, step) ==
  /\ ~Prompted(s, step)
  /\ ccm[s][step] = Undefined
  /\ cancelledAt[s] # step
  /\ step = "scope" => cancelledAt[s] # "customScope"
  /\ prompt[s].step # step

\* the line of the handler after the call of the step function
FollowingStep(step) ==
  CASE step = "scope" -> "getSubject"
    [] step = "body" -> "getBreaking"
    [] step = "breaking" -> "getFooter"
    [] step = "footer" -> "complete"

StepFunctionOf(step) ==
  CASE step = "scope" -> "getScope"
    [] step = "body" -> "getBody"
    [] step = "breaking" -> "getBreaking"
    [] step = "footer" -> "getFooter"

\* C4 as stated: a step listed in skipQuestions (scope, body, breaking,
\* footer) never asks and stores nothing, also when a scopes list is
\* configured.
C4_SkipListedNeverAsks ==
  \A s \in Sessions : \A step \in {"scope", "body", "breaking", "footer"} :
    SkipListed(s, step) => PassedOver(s, step)

\* C4 as amended: body, breaking and footer, when listed in skipQuestions,
\* and scope, when listed and no non-empty scopes list is configured, never
\* ask, store nothing, and their step function returns to the following
\* line of the handler with next unchanged.
C4_SkipNeverAsks ==
  /\ [](\A s \in Sessions : \A step \in {"scope", "body", "breaking", "footer"} :
          SkipListed(s, step) /\ (step = "scope" => ~ScopesListed(s))
            => PassedOver(s, step))
  /\ [][\A s \in Sessions : \A step \in {"scope", "body", "breaking", "footer"} :
          /\ SkipListed(s, step) /\ (step = "scope" => ~ScopesListed(s))
          /\ pc[s] = StepFunctionOf(step)
          => /\ pc'[s] = FollowingStep(step)
             /\ ccm'[s] = ccm[s]
             /\ calls'[s] = calls[s]]_vars

\* C4 witness: all four steps are listed, none has asked, and the handler
\* has reached its last line with the wizard complete
C4_Witness ==
  \E s \in Sessions :
    /\ pc[s] = "complete"
    /\ complete(ccm[s])
    /\ \A step \in {"scope", "body", "breaking", "footer"} :
         SkipListed(s, step) /\ ~Prompted(s, step)

\* C5: in commit(), with smart commit enabled and no staged file (the
\* staged-files query printed nothing), git.stageAll is called exactly once
\* and has completed before 'git commit' is started; with smart commit
\* enabled and a staged file, and with smart commit disabled, git.stageAll is
\* not called.
C5_SmartCommitStaging ==
  \A s \in Sessions :
    LET log == calls[s]
        smart == configuration.enableSmartCommit
    IN  /\ smart /\ frame[s].diff = Some(<<>>) =>
             /\ Cardinality(CallsTo(s, "git.stageAll")) = 1
             /\ \A i \in CallsTo(s, "gitCommit") :
                  \E j \in CallsTo(s, "git.stageAll") : \E k \in (j + 1)..(i - 1) :
                    log[k] = Call("resolved", "commit", <<"git.stageAll">>)
        /\ smart /\ frame[s].diff # Undefined /\ frame[s].diff # Some(<<>>) =>
             CallsTo(s, "git.stageAll") = {}
        /\ ~smart => CallsTo(s, "git.stageAll") = {}
        /\ smart /\ frame[s].diff = Undefined => CallsTo(s, "gitCommit") = {}

\* C5 witness: smart commit enabled, nothing staged, and 'git commit' is
\* running
C5_Witness ==
  \E s \in Sessions :
    /\ configuration.enableSmartCommit
    /\ frame[s].diff = Some(<<>>)
    /\ pc[s] = "await_commit"


\* C6: with showOutputChannel = "onError", when commit() has returned, the
\* output channel was shown (channel.show) if 'git commit' ended with an exit
\* status other than zero, and was not shown if it ended with zero.
C6_OnErrorReveals ==
  \A s \in Sessions :
    configuration.showOutputChannel = "onError" /\ pc[s] = "returned" =>
      /\ (\E i \in DOMAIN calls[s] :
            calls[s][i] = Call("rejected", "commit", <<"gitCommit">>))
           /\ frame[s].error # Undefined /\ frame[s].error[1].code > 0
         => CallsTo(s, "channel.show") # {}
      /\ frame[s].result # Undefined /\ frame[s].result[1].code = 0
         => CallsTo(s, "channel.show") = {}

\* the failures the collaborator function fn can raise
FailuresOf(fn) ==
  CASE fn = "gitDiff" -> DiffFailures
    [] fn = "gitCommit" -> CommitFailures
    [] OTHER -> CommandFailures(fn)

\* C7: a failure raised inside commit() (by the staged-files query, by
\* git.stageAll, by 'git commit', by git.refresh or by git.sync) is caught:
\* commit() returns and the handler does not fail; the calls that follow the
\* failure are exactly one error notification with the failure's message,
\* the message to the log and the stack to the log; and 'git commit' is not
\* started a second time.
C7_FailureCaughtOnce ==
  \A s \in Sessions : \A i \in CallsTo(s, "rejected") :
    /\ pc[s] = "returned"
    /\ frame[s].error # Undefined
    /\ frame[s].error[1] \in FailuresOf(calls[s][i].arg[1])
    /\ SubSeq(calls[s], i + 1, Len(calls[s])) =
         << Call("showErrorMessage", "commit", frame[s].error[1].message),
            Call("channel.appendLine", "commit", frame[s].error[1].message),
            Call("channel.appendLine", "commit", frame[s].error[1].stack) >>
    /\ Cardinality(CallsTo(s, "showErrorMessage")) = 1
    /\ Cardinality(CallsTo(s, "gitCommit")) <= 1

\* C7 witness: git.refresh failed after 'git commit' succeeded
C7_Witness ==
  \E s \in Sessions :
    /\ frame[s].result # Undefined
    /\ \E i \in DOMAIN calls[s] :
         calls[s][i] = Call("rejected", "commit", <<"git.refresh">>)

\* C8: a session of the command works with the configuration as the files
\* of the workspace give it when the command is invoked.
C8_ConfigurationFresh ==
  \A s \in Sessions :
    Running(s) => ccm[s].czConfig = readCzConfig(workspaceFolders, fs)

\* C9: the quick pick of the Type step always has options; with no
\* configuration, no types field or an empty types list they are the ten
\* default types.
C9_TypeOptionsNeverEmpty ==
  \A s \in Sessions :
    prompt[s].kind = "quickPick" /\ prompt[s].step = "type" =>
      /\ Len(prompt[s].picks) > 0
      /\ (ccm[s].czConfig = Undefined
          \/ ccm[s].czConfig[1].types \in {Undefined, Some(<<>>)})
         => prompt[s].picks =
              [i \in 1..Len(DEFAULT_TYPES) |->
                 [label |-> DEFAULT_TYPES[i].value,
                  description |-> DEFAULT_TYPES[i].name]]

\* C10: with a workspace folder open and no configuration, when the handler
\* is through, no prompt was cancelled, a default type was picked and a
\* subject entered, then the handler has not failed and commit()
\* was called with a message whose first line is
\* <type>[(<scope>)]: <emoji code of the type> <subject>, followed by an
\* empty line.
C10_DefaultMessageCommitted ==
  \A s \in Sessions :
    /\ mode[s] = "handler"
    /\ workspaceFolders
    /\ pc[s] \in {"returned", "rejected"}
    /\ ccm[s].czConfig = Undefined
    /\ cancelledAt[s] = "none"
    /\ Truthy(ccm[s].subject)
    /\ \E i \in DOMAIN DEFAULT_TYPES : ccm[s].type = Some(DEFAULT_TYPES[i].value)
    => /\ pc[s] = "returned"
       /\ frame[s].message # Undefined
       /\ LET lines == split(frame[s].message[1], "\n")
              entry == CHOOSE i \in DOMAIN DEFAULT_TYPES :
                         ccm[s].type = Some(DEFAULT_TYPES[i].value)
          IN  /\ lines[1] =
                   ccm[s].type[1]
                   \o (IF Truthy(ccm[s].scope)
                         THEN <<"(">> \o ccm[s].scope[1] \o <<")">> ELSE <<>>)
                   \o <<":", " ">> \o DEFAULT_TYPES[entry].emojiCode
                   \o <<" ">> \o ccm[s].subject[1]
              /\ Len(lines) > 1 => lines[2] = <<>>

\* the handler of session s has rendered the message of its wizard
Rendered(s) == frame[s].message # Undefined

\* text begins with prefix
StartsWith(text, prefix) ==
  Len(text) >= Len(prefix) /\ SubSeq(text, 1, Len(prefix)) = prefix

\* text ends with suffix
EndsWith(text, suffix) ==
  /\ Len(text) >= Len(suffix)
  /\ SubSeq(text, Len(text) - Len(suffix) + 1, Len(text)) = suffix

\* the symbols of a text
Symbols(text) == {text[i] : i \in DOMAIN text}

\* C11: whenever the handler has rendered the message, whatever way the
\* scope was arrived at (step skipped, empty or non-empty text typed at the
\* free-text prompt or at the custom-scope prompt, a scope name picked), the
\* header (the first line of the message, which commit() is given trimmed)
\* is the type, then "(" scope ")" if and only if the scope is
\* a non-empty string, then ":"; with the scope unset or empty the header
\* has no parenthesis at all.
C11_ScopeInParentheses ==
  \A s \in Sessions :
    Rendered(s) =>
      LET c == ccm[s]
          header == split(message(c), "\n")[1]
          type == ToText(c.type)
          rest == SubSeq(header, Len(type) + 1, Len(header))
      IN  /\ frame[s].message = Some(trim(message(c)))
          /\ StartsWith(header, type)
          /\ IF c.scope # Undefined /\ c.scope[1] # <<>>
               THEN StartsWith(rest, <<"(">> \o c.scope[1] \o <<")", ":">>)
               ELSE /\ StartsWith(rest, <<":">>)
                    /\ Symbols(header) \cap {"(", ")"} = {}

\* C11 witness: the custom-scope entry was picked, the empty text typed at
\* its prompt, and the message rendered
C11_Witness ==
  \E s \in Sessions :
    /\ Rendered(s)
    /\ ccm[s].scope = Undefined
    /\ \E i, j \in DOMAIN calls[s] :
         /\ calls[s][i].fn = "showQuickPick" /\ calls[s][i].step = "scope"
         /\ calls[s][j].fn = "showInputBox" /\ calls[s][j].step = "scope"
         /\ calls[s][j + 1] = Call("resolved", "scope", <<"showInputBox">>)

\* the lines of a text
Lines(text) == split(text, "\n")

\* C12: whenever the handler has rendered the message, its last line is
\* <footerPrefix><footer> when the footer is a non-empty string, where
\* footerPrefix is the configured value whatever it is (the empty string
\* included) and "Closes " only when none is configured; and nothing is
\* appended (the message ends with a line break) when the footer is unset or
\* empty.
C12_FooterPrefixExact ==
  \A s \in Sessions :
    Rendered(s) =>
      LET c == ccm[s]
          lines == Lines(message(c))
          footerPrefix ==
            IF c.czConfig # Undefined /\ c.czConfig[1].footerPrefix # Undefined
              THEN c.czConfig[1].footerPrefix[1] ELSE <<"Closes", " ">>
      IN  lines[Len(lines)] =
            IF c.footer # Undefined /\ c.footer[1] # <<>>
              THEN footerPrefix \o c.footer[1] ELSE <<>>

\* C13: whenever the handler has rendered the message of a wizard whose
\* Body step was skipped (body never set), the header is followed by an
\* empty line, an empty body and an empty line, and the text "undefined"
\* stands nowhere in place of the body.
C13_UnsetBodyEmptyParagraph ==
  \A s \in Sessions :
    Rendered(s) /\ ccm[s].body = Undefined /\ SkipListed(s, "body") =>
      LET lines == Lines(message(ccm[s]))
      IN  /\ Len(lines) >= 5
          /\ lines[2] = <<>> /\ lines[3] = <<>> /\ lines[4] = <<>>
          /\ \A i \in 2..Len(lines) : lines[i] # <<"undefined">>

\* the external actions of commit(), in the order of the source
ExternalActions == <<"gitDiff", "git.stageAll", "gitCommit", "git.refresh", "git.sync">>

Rank(fn) == CHOOSE r \in DOMAIN ExternalActions : ExternalActions[r] = fn

\* the external actions session s has started, and those that have ended
Started(s) ==
  {i \in DOMAIN calls[s] : calls[s][i].fn \in Symbols(ExternalActions)}
Ended(s) ==
  {i \in DOMAIN calls[s] :
     /\ calls[s][i].fn \in {"resolved", "rejected"}
     /\ calls[s][i].step = "commit"}

\* C14: in one call of commit(), the external actions that are started are
\* started in the order staged-files query, stage-all, 'git commit', refresh,
\* sync, each at most once and each only after the one before it has
\* completed, so that at most one is in flight at any time; refresh follows
\* the completed 'git commit' at once; sync is started only with autoSync
\* enabled, and then at once after the completed refresh.
C14_ExternalActionsInSequence ==
  \A s \in Sessions :
    LET log == calls[s]
    IN  /\ \A i, j \in Started(s) :
             i < j =>
               /\ Rank(log[i].fn) < Rank(log[j].fn)
               /\ \E k \in (i + 1)..(j - 1) :
                    log[k] = Call("resolved", "commit", <<log[i].fn>>)
        /\ Cardinality(Started(s)) - Cardinality(Ended(s)) \in {0, 1}
        /\ (Cardinality(Started(s)) - Cardinality(Ended(s)) = 1) =
             (pc[s] \in {"await_diff", "await_stageAll", "await_commit",
                         "await_refresh", "await_sync"})
        /\ CallsTo(s, "git.sync") # {} => configuration.autoSync
        /\ \A i \in DOMAIN log :
             /\ log[i] = Call("resolved", "commit", <<"gitCommit">>) =>
                  log[i + 1].fn = "git.refresh"
             /\ log[i] = Call("resolved", "commit", <<"git.refresh">>)
                /\ configuration.autoSync => log[i + 1].fn = "git.sync"

\* C14 witness: all five external actions were started and have completed
C14_Witness ==
  \E s \in Sessions :
    /\ pc[s] = "returned"
    /\ frame[s].error = Undefined
    /\ {calls[s][i].fn : i \in Started(s)} = Symbols(ExternalActions)

\* the six steps in the order of the handler
StepOrder == <<"type", "scope", "subject", "body", "breaking", "footer">>

StepRank(step) == CHOOSE r \in DOMAIN StepOrder : StepOrder[r] = step

\* the prompts session s has issued
Prompts(s) ==
  {i \in DOMAIN calls[s] : calls[s][i].fn \in {"showQuickPick", "showInputBox"}}

\* C15: in a session of the command the prompts are issued in the order
\* Type, Scope, Subject, Body, Breaking, Footer: a prompt is never issued
\* after a prompt of a later step, a step prompts once (the Scope step twice
\* when the custom entry is picked: the list, then the free text), and a
\* prompt is issued only after the one before it has resolved; an answer
\* field changes only while it is unset, and only when the prompt of its own
\* step resolves, so it is written at most once.
C15_PromptsInOrder ==
  /\ [](\A s \in Sessions : \A i, j \in Prompts(s) :
          i < j =>
            LET first == calls[s][i]
                second == calls[s][j]
            IN  /\ StepRank(first.step) <= StepRank(second.step)
                /\ first.step = second.step =>
                     /\ first.step = "scope"
                     /\ first.fn = "showQuickPick"
                     /\ second.fn = "showInputBox"
                /\ \E k \in (i + 1)..(j - 1) :
                     calls[s][k] = Call("resolved", first.step, <<first.fn>>))
  /\ [][\A s \in Sessions : \A f \in Symbols(StepOrder) :
          Running(s) /\ ccm'[s][f] # ccm[s][f] =>
            /\ ccm[s][f] = Undefined
            /\ prompt[s].step = f
            /\ prompt'[s] = NoPrompt
            /\ \A g \in Symbols(StepOrder) \ {f} : ccm'[s][g] = ccm[s][g]]_vars

\* C15 witness: the handler has reached its last line after seven prompts:
\* the six steps, and the free text of the custom scope entry
C15_Witness ==
  \E s \in Sessions :
    /\ pc[s] = "complete"
    /\ Cardinality(Prompts(s)) = 7
    /\ \A f \in Symbols(StepOrder) \ {"scope"} : ccm[s][f] # Undefined

\* the lines of the handler after its call of getSubject
PastSubject ==
  {"getBody", "body_input", "getBreaking", "breaking_input", "getFooter",
   "footer_input", "complete", "await_diff", "await_stageAll", "await_commit",
   "await_refresh", "await_sync", "returned"}

\* C16: a handler that is past the Subject step without a cancellation at
\* the Type or Scope step has asked for the subject, whether or not
\* 'subject' is in skipQuestions; a stored subject is longer than 0 and no
\* longer than subjectLength; the validator returns a non-empty error text
\* exactly for the inputs that are empty or too long; and while the input
\* box shows such an error, nothing is stored, the wizard is not cancelled
\* and the handler is still at the Subject step.
C16_SubjectValidated ==
  \A s \in Sessions :
    /\ pc[s] \in PastSubject /\ cancelledAt[s] \notin {"type", "scope", "customScope"}
         => Prompted(s, "subject")
    /\ ccm[s].subject # Undefined =>
         /\ Len(ccm[s].subject[1]) > 0
         /\ Len(ccm[s].subject[1]) <= configuration.subjectLength
    /\ \A input \in Inputs :
         (validator(configuration.subjectLength, input) # <<>>) =
           (Len(input) = 0 \/ Len(input) > configuration.subjectLength)
    /\ prompt[s].error # <<>> =>
         /\ pc[s] = "subject_input"
         /\ prompt[s].step = "subject"
         /\ ccm[s].subject = Undefined
         /\ ccm[s].next
         /\ cancelledAt[s] = "none"

\* C16 witness: 'subject' is in skipQuestions, the subject was asked for all
\* the same, and the input box shows the error for a refused input
C16_Witness ==
  \E s \in Sessions :
    /\ SkipListed(s, "subject")
    /\ pc[s] = "subject_input"
    /\ prompt[s].error # <<>>

\* 'git commit' has run in session s: it was started and has ended
GitCommitRan(s) ==
  /\ CallsTo(s, "gitCommit") # {}
  /\ \E i \in DOMAIN calls[s] :
       calls[s][i] \in {Call("resolved", "commit", <<"gitCommit">>),
                        Call("rejected", "commit", <<"gitCommit">>)}

\* C17: when commit() has returned after 'git commit' has run, the output
\* channel was shown if showOutputChannel is "always", whatever the exit
\* status and whether or not the command printed anything, and was not shown
\* if it is "off"; and the lines of the captured output were forwarded to the
\* channel exactly when the captured output is not empty.
C17_AlwaysReveals ==
  \A s \in Sessions :
    pc[s] = "returned" /\ GitCommitRan(s) =>
      /\ configuration.showOutputChannel = "always" =>
           CallsTo(s, "channel.show") # {}
      /\ configuration.showOutputChannel = "off" =>
           CallsTo(s, "channel.show") = {}
      /\ frame[s].result # Undefined /\ frame[s].error = Undefined =>
           LET stdout == frame[s].result[1].stdout
               after == SubSeq(calls[s], Max(CallsTo(s, "gitCommit")) + 1,
                               Len(calls[s]))
               forwarded == SelectSeq(after, LAMBDA c : c.fn = "channel.appendLine")
           IN  [k \in 1..Len(forwarded) |-> forwarded[k].arg] =
                 IF stdout # <<>> THEN Lines(stdout) ELSE <<>>

\* the configuration of session s has a scopes list of named scopes
NamedScopesListed(s) ==
  /\ ScopesListed(s)
  /\ \A i \in DOMAIN ccm[s].czConfig[1].scopes[1] :
       ccm[s].czConfig[1].scopes[1][i] # Undefined

\* the names of the configured scopes of session s
ScopeNames(s) ==
  LET scopes == ccm[s].czConfig[1].scopes[1]
  IN  [i \in DOMAIN scopes |-> scopes[i][1].name]

\* C18: with a non-empty list of named scopes configured, the Scope step
\* does not fail and shows the list: the scope names, followed by the custom
\* entry (the text of 'customScopeEntry') if and only if allowCustomScopes
\* is set.  When the list resolves, either the custom entry was picked and
\* one free-text prompt is issued, or a scope name was picked and is stored
\* with no further prompt, or the list was cancelled and the wizard is
\* cancelled with the scope unset.  When the free-text prompt resolves, the
\* typed text is the scope (unset if nothing was typed), or the prompt was
\* cancelled and the wizard is cancelled with the scope unset.
C18_CustomScopeEntry ==
  /\ [](\A s \in Sessions :
          NamedScopesListed(s) =>
            /\ pc[s] = "rejected" => Prompted(s, "subject")
            /\ pc[s] = "scope_pick" =>
                 [i \in DOMAIN prompt[s].picks |-> prompt[s].picks[i].label] =
                   ScopeNames(s) \o
                     (IF ccm[s].czConfig[1].allowCustomScopes
                        THEN <<inputMessage(ccm[s].czConfig, "customScopeEntry")>>
                        ELSE <<>>))
  /\ [][\A s \in Sessions :
          NamedScopesListed(s) =>
            /\ pc[s] = "scope_pick" /\ pc'[s] # pc[s] =>
                 \/ /\ pc'[s] = "scope_custom"
                    /\ ccm[s].czConfig[1].allowCustomScopes
                    /\ ccm'[s] = ccm[s]
                    /\ Cardinality(Prompts(s)') = Cardinality(Prompts(s)) + 1
                 \/ /\ pc'[s] = "getSubject"
                    /\ Prompts(s)' = Prompts(s)
                    /\ \/ /\ cancelledAt'[s] = "scope"
                          /\ ~ccm'[s].next
                          /\ ccm'[s].scope = Undefined
                       \/ /\ cancelledAt'[s] = "none"
                          /\ ccm'[s].next
                          /\ \E i \in DOMAIN ScopeNames(s) :
                               ccm'[s].scope = Some(ScopeNames(s)[i])
            /\ pc[s] = "scope_custom" /\ pc'[s] # pc[s] =>
                 /\ pc'[s] = "getSubject"
                 /\ Prompts(s)' = Prompts(s)
                 /\ \/ /\ cancelledAt'[s] = "customScope"
                       /\ ~ccm'[s].next
                       /\ ccm'[s].scope = Undefined
                    \/ /\ cancelledAt'[s] = "none"
                       /\ ccm'[s].next
                       /\ ccm'[s].scope \in
                            {Undefined} \cup {Some(i) : i \in Inputs \ {<<>>}}]_vars

\* what belongs to the invocation s of the handler
SessionState(s) ==
  <<mode[s], pc[s], ccm[s], prompt[s], frame[s], calls[s], cancelledAt[s],
    stepCalls[s]>>

\* C19: with two invocations of the command overlapping, a step of one
\* invocation (a prompt opened, answered, refused or cancelled, the handler
\* moving on) changes nothing of the other: no answer field, no next flag, no
\* position, no prompt, no call; and the message an invocation renders is
\* the message of its own answers.
C19_SessionsIsolated ==
  /\ [][\A s, t \in Sessions :
          s # t /\ SessionState(s)' # SessionState(s) =>
            SessionState(t)' = SessionState(t)]_vars
  /\ [](\A s \in Sessions :
          Rendered(s) => frame[s].message = Some(trim(message(ccm[s]))))

\* C19 witness: one invocation has rendered its message while the subject
\* prompt of the other is open, and the two have different types
C19_Witness ==
  \E s, t \in Sessions :
    /\ s # t
    /\ pc[s] = "subject_input"
    /\ Rendered(t)
    /\ ccm[s].type # ccm[t].type

\* the lines the git commands can print
OutputLines ==
  UNION {Symbols(Lines(stdout)) : stdout \in (CommitOutputs \cup DiffOutputs) \ {<<>>}}

\* the staged-files query, stage-all or 'git commit' has failed in session s
FailedBeforeRefresh(s) ==
  \E i \in CallsTo(s, "rejected") :
    calls[s][i].arg[1] \in {"gitDiff", "git.stageAll", "gitCommit"}

\* C20: git.refresh and git.sync are called only after a 'git commit' of
\* the same commit() call has completed without a failure; and when the
\* staged-files query, stage-all or 'git commit' has failed, neither is
\* called, no result of 'git commit' is kept and no line of command output
\* is written to the channel (the channel gets the failure's message and
\* stack only).
C20_RefreshOnlyAfterCommit ==
  \A s \in Sessions :
    /\ \A i \in CallsTo(s, "git.refresh") \cup CallsTo(s, "git.sync") :
         \E k \in 1..(i - 1) :
           calls[s][k] = Call("resolved", "commit", <<"gitCommit">>)
    /\ FailedBeforeRefresh(s) =>
         /\ CallsTo(s, "git.refresh") = {}
         /\ CallsTo(s, "git.sync") = {}
         /\ frame[s].result = Undefined
         /\ \A i \in CallsTo(s, "channel.appendLine") :
              calls[s][i].arg \notin OutputLines
         /\ \A i \in CallsTo(s, "rejected") :
              \A j \in CallsTo(s, "channel.appendLine") :
                j > i => calls[s][j].arg \in {frame[s].error[1].message,
                                               frame[s].error[1].stack}

\* C20 witness: stage-all has failed and commit() has returned
C20_Witness ==
  \E s \in Sessions :
    /\ pc[s] = "returned"
    /\ \E i \in DOMAIN calls[s] :
         calls[s][i] = Call("rejected", "commit", <<"git.stageAll">>)

====
